---- MODULE Spec2Model ----
(***************************************************************************)
(* Model of src/main.py: a process that runs one container, reads its      *)
(* output stream in a reader thread, buffers the lines in a bounded        *)
(* queue.Queue and sends them in batches to CloudWatch from a flusher      *)
(* thread.  Three threads are modelled: main (which also runs the Python   *)
(* signal handler shutdown_handler, as CPython runs handlers on the main   *)
(* thread), the reader (DockerManager.collect_logs) and the flusher        *)
(* (LogHandler.flush_logs).  Every queue.Queue / threading.Event method    *)
(* call is one atomic step; the code between two such calls is folded      *)
(* into the step that precedes it.                                         *)
(*                                                                         *)
(* A log event is represented by its message alone: line i of the          *)
(* workload's output is the number i.  The timestamp field that handle_log *)
(* adds is never read by the program and is left out.                      *)
(***************************************************************************)
EXTENDS Naturals, Sequences, FiniteSets

\* Capacity of log_events_queue.  The program uses 50 (src/main.py:18); the
\* model scales it down so that a full queue is reached with few lines.
LOGS_QUEUE_SIZE == 2

\* Largest number of lines the workload writes before it stops.
MaxLines == 4

\* Largest number of SIGINT/SIGTERM deliveries in one run.
MaxSignals == 2

VARIABLES
    mainPc,        \* position of main()'s own control flow
    mainErr,       \* TRUE once the except clause of main (line 199) has run
    installed,     \* shutdown_handler is installed for SIGINT and SIGTERM
    hstack,        \* frames of shutdown_handler running on the main thread, innermost first
    sigCount,      \* number of signals delivered so far
    groupExists,   \* the CloudWatch log group exists
    streamExists,  \* the CloudWatch log stream exists
    apiFault,      \* a set-up call failed for another reason than "already exists"
    absorbed,      \* number of ResourceAlreadyExistsException caught at set-up
    container,     \* state of the container in the runtime
    handle,        \* docker_manager.container is not None
    killed,        \* container.kill() has stopped the container
    emitted,       \* number of lines the workload has written
    readerPc,      \* position of the reader thread (collect_logs)
    nread,         \* number of lines the reader has taken from the stream
    putWaited,     \* the last completed put had found the queue full and waited
    queue,         \* log_events_queue
    finished,      \* LogHandler.finished (threading.Event)
    flusherPc,     \* position of the flusher thread (flush_logs)
    n,             \* iterations left of the for loop of line 121
    log_events,    \* the local list log_events of flush_logs
    snapshot,      \* the queue's content when qsize() was last called
    sent,          \* the lists passed to send_logs, in call order
    delivered,     \* the lists put_log_events accepted, in call order
    putsAtFinish   \* number of completed puts when finished was first set

vars == <<mainPc, mainErr, installed, hstack, sigCount, groupExists, streamExists,
          apiFault, absorbed,
          container, handle, killed, emitted, readerPc, nread, putWaited, queue,
          finished, flusherPc, n, log_events, snapshot, sent, delivered, putsAtFinish>>

mainVars == <<mainPc, mainErr, installed, hstack, sigCount>>
cloudVars == <<groupExists, streamExists, apiFault, absorbed>>
containerVars == <<container, handle, killed, emitted>>
readerVars == <<readerPc, nread, putWaited>>
flusherVars == <<flusherPc, n, log_events, snapshot, sent, delivered>>

----------------------------------------------------------------------------
(* Helpers *)

\* a is b with some elements left out.
RECURSIVE IsSubseq(_, _)
IsSubseq(a, b) ==
    IF a = <<>> THEN TRUE
    ELSE IF b = <<>> THEN FALSE
    ELSE IF Head(a) = Head(b) THEN IsSubseq(Tail(a), Tail(b))
    ELSE IsSubseq(a, Tail(b))

RECURSIVE Flatten(_)
Flatten(batches) ==
    IF batches = <<>> THEN <<>>
    ELSE Head(batches) \o Flatten(Tail(batches))

\* The first k lines of the workload's output.
Lines(k) == [i \in 1..k |-> i]

\* Number of handle_log calls whose put has completed.
PutsDone == IF readerPc \in {"put", "put_wait"} THEN nread - 1 ELSE nread

----------------------------------------------------------------------------
(* queue.Queue(maxsize=LOGS_QUEUE_SIZE) *)

MutUnboundedFull(q) == FALSE
\* Queue.full as put sees it: maxsize > 0 and qsize() >= maxsize.
QFull(q) == Len(q) >= LOGS_QUEUE_SIZE

MutPutFront(q, e) == <<e>> \o q
\* Queue.put appends at the tail.
QPut(q, e) == Append(q, e)

MutDrainUntilEmpty(q) == LOGS_QUEUE_SIZE + MaxLines
MutDrainShort(q) == IF Len(q) > 0 THEN Len(q) - 1 ELSE 0
\* range(self.log_events_queue.qsize()): the number of gets of one drain.
DrainCount(q) == Len(q)

MutLoopWhileFlag(f) == f
\* First operand of the while condition: not self.finished.is_set().
LoopOnFlag(f) == ~f

MutLoopIgnoresQueue(q) == FALSE
MutLoopWhileEmpty(q) == q = <<>>
\* Second operand of the while condition: not self.log_events_queue.empty().
LoopOnQueue(q) == q # <<>>

MutSendAlways(batch) == TRUE
\* if len(log_events) != 0
ShouldSend(batch) == Len(batch) # 0

----------------------------------------------------------------------------
Init ==
    /\ mainPc = "create_group"
    /\ mainErr = FALSE
    /\ installed = FALSE
    /\ hstack = <<>>
    /\ sigCount = 0
    /\ groupExists \in BOOLEAN
    /\ streamExists \in BOOLEAN
    /\ (streamExists => groupExists)
    /\ apiFault = FALSE
    /\ absorbed = 0
    /\ container = "none"
    /\ handle = FALSE
    /\ killed = FALSE
    /\ emitted = 0
    /\ readerPc = "idle"
    /\ nread = 0
    /\ putWaited = FALSE
    /\ queue = <<>>
    /\ finished = FALSE
    /\ flusherPc = "idle"
    /\ n = 0
    /\ log_events = <<>>
    /\ snapshot = <<>>
    /\ sent = <<>>
    /\ delivered = <<>>
    /\ putsAtFinish = 0

----------------------------------------------------------------------------
(* main(), lines 171-200.  Its steps run only while no handler frame is on *)
(* the main thread.                                                        *)

\* An exception reaches "except Exception" of line 199.
MainFails ==
    /\ mainErr' = TRUE
    /\ mainPc' = "done"

\* What a create call of the CloudWatch client can raise: the service
\* refuses to create what exists, and any call can fail for another reason.
CreateOutcomes(exists) == {IF exists THEN "already_exists" ELSE "none", "other"}

MutCatchNothing(exc) == FALSE
\* except self.client.exceptions.ResourceAlreadyExistsException (lines 77, 88).
Caught(exc) == exc = "already_exists"

\* create_log_group, lines 73-78: an existing group is logged and is no
\* error; any other exception propagates to main.
MainCreateGroup ==
    /\ mainPc = "create_group" /\ hstack = <<>>
    /\ \E exc \in CreateOutcomes(groupExists) :
          IF exc = "none"
            THEN /\ groupExists' = TRUE
                 /\ mainPc' = "create_stream"
                 /\ UNCHANGED <<mainErr, apiFault, absorbed>>
          ELSE IF Caught(exc)
            THEN /\ absorbed' = absorbed + 1
                 /\ mainPc' = "create_stream"
                 /\ UNCHANGED <<mainErr, groupExists, apiFault>>
          ELSE /\ MainFails
               /\ apiFault' = (apiFault \/ exc = "other")
               /\ UNCHANGED <<groupExists, absorbed>>
    /\ UNCHANGED <<installed, hstack, sigCount, streamExists, containerVars,
                   readerVars, queue, finished, flusherVars, putsAtFinish>>

\* create_log_stream, lines 80-89.
MainCreateStream ==
    /\ mainPc = "create_stream" /\ hstack = <<>>
    /\ \E exc \in CreateOutcomes(streamExists) :
          IF exc = "none"
            THEN /\ streamExists' = TRUE
                 /\ mainPc' = "new_handler"
                 /\ UNCHANGED <<mainErr, apiFault, absorbed>>
          ELSE IF Caught(exc)
            THEN /\ absorbed' = absorbed + 1
                 /\ mainPc' = "new_handler"
                 /\ UNCHANGED <<mainErr, streamExists, apiFault>>
          ELSE /\ MainFails
               /\ apiFault' = (apiFault \/ exc = "other")
               /\ UNCHANGED <<streamExists, absorbed>>
    /\ UNCHANGED <<installed, hstack, sigCount, groupExists, containerVars,
                   readerVars, queue, finished, flusherVars, putsAtFinish>>

\* LogHandler.__init__: creates the queue and the event, starts the flusher.
MainNewLogHandler ==
    /\ mainPc = "new_handler" /\ hstack = <<>>
    /\ flusherPc' = "test_flag"
    /\ mainPc' = "new_docker"
    /\ UNCHANGED <<mainErr, installed, hstack, sigCount, cloudVars, containerVars,
                   readerVars, queue, finished, n, log_events, snapshot, sent,
                   delivered, putsAtFinish>>

\* DockerManager.__init__: docker.from_env() may raise.
MainNewDocker ==
    /\ mainPc = "new_docker" /\ hstack = <<>>
    /\ \/ /\ mainPc' = "install"
          /\ UNCHANGED mainErr
       \/ MainFails
    /\ UNCHANGED <<installed, hstack, sigCount, cloudVars, containerVars,
                   readerVars, queue, finished, flusherVars, putsAtFinish>>

\* signal.signal(SIGINT, ...) and signal.signal(SIGTERM, ...).
MainInstall ==
    /\ mainPc = "install" /\ hstack = <<>>
    /\ installed' = TRUE
    /\ mainPc' = "run"
    /\ UNCHANGED <<mainErr, hstack, sigCount, cloudVars, containerVars,
                   readerVars, queue, finished, flusherVars, putsAtFinish>>

\* client.containers.run(..., detach=True): the container starts, or the
\* call raises.
MainRun ==
    /\ mainPc = "run" /\ hstack = <<>>
    /\ \/ /\ container' = "running"
          /\ mainPc' = "assign"
          /\ UNCHANGED mainErr
       \/ /\ MainFails
          /\ UNCHANGED container
    /\ UNCHANGED <<installed, hstack, sigCount, cloudVars, handle, killed, emitted,
                   readerVars, queue, finished, flusherVars, putsAtFinish>>

\* self.container = <the value run returned>.
MainAssign ==
    /\ mainPc = "assign" /\ hstack = <<>>
    /\ handle' = TRUE
    /\ mainPc' = "start_reader"
    /\ UNCHANGED <<mainErr, installed, hstack, sigCount, cloudVars, container, killed,
                   emitted, readerVars, queue, finished, flusherVars, putsAtFinish>>

\* log_thread.start().
MainStartReader ==
    /\ mainPc = "start_reader" /\ hstack = <<>>
    /\ readerPc' = "next"
    /\ mainPc' = "wait"
    /\ UNCHANGED <<mainErr, installed, hstack, sigCount, cloudVars, containerVars,
                   nread, putWaited, queue, finished, flusherVars, putsAtFinish>>

\* self.container.wait() returns once the container has stopped.
MainWait ==
    /\ mainPc = "wait" /\ hstack = <<>>
    /\ container # "running"
    /\ mainPc' = "join_reader"
    /\ UNCHANGED <<mainErr, installed, hstack, sigCount, cloudVars, containerVars,
                   readerVars, queue, finished, flusherVars, putsAtFinish>>

MutJoinSkipped(pc) == TRUE
\* Thread.join returns once the thread's target has returned.
JoinReturns(pc) == pc = "done"

\* log_thread.join().
MainJoinReader ==
    /\ mainPc = "join_reader" /\ hstack = <<>>
    /\ JoinReturns(readerPc)
    /\ mainPc' = "remove"
    /\ UNCHANGED <<mainErr, installed, hstack, sigCount, cloudVars, containerVars,
                   readerVars, queue, finished, flusherVars, putsAtFinish>>

MutRemoveTarget(c) == c
\* DockerManager.remove: self.container.remove() on the stopped container.
RemoveTarget(c) == "removed"

\* docker_manager.remove(), line 198; main returns after it.
MainRemove ==
    /\ mainPc = "remove" /\ hstack = <<>>
    /\ container' = (IF handle THEN RemoveTarget(container) ELSE container)
    /\ mainPc' = "done"
    /\ UNCHANGED <<mainErr, installed, hstack, sigCount, cloudVars, handle, killed,
                   emitted, readerVars, queue, finished, flusherVars, putsAtFinish>>

----------------------------------------------------------------------------
(* shutdown_handler, lines 187-190, on the main thread *)

\* The interpreter has ended: main returned and no other thread is alive.
ProcessExited ==
    /\ mainPc = "done" /\ hstack = <<>>
    /\ readerPc \in {"idle", "done"}
    /\ flusherPc \in {"idle", "exited"}

\* A SIGINT or SIGTERM is delivered and the handler is entered.
Signal ==
    /\ installed
    /\ sigCount < MaxSignals
    /\ ~ProcessExited
    /\ hstack' = <<"kill">> \o hstack
    /\ sigCount' = sigCount + 1
    /\ UNCHANGED <<mainPc, mainErr, installed, cloudVars, containerVars, readerVars,
                   queue, finished, flusherVars, putsAtFinish>>

\* docker_manager.kill(): nothing without a handle; kills a running
\* container; on a container that is not running the runtime refuses and
\* the exception leaves every handler frame and reaches main.
HandlerKill ==
    /\ hstack # <<>> /\ Head(hstack) = "kill"
    /\ IF ~handle
         THEN /\ hstack' = <<"set_finished">> \o Tail(hstack)
              /\ UNCHANGED <<mainPc, mainErr, container, killed>>
       ELSE IF container = "running"
         THEN /\ container' = "exited"
              /\ killed' = TRUE
              /\ hstack' = <<"set_finished">> \o Tail(hstack)
              /\ UNCHANGED <<mainPc, mainErr>>
       ELSE /\ hstack' = <<>>
            /\ IF mainPc = "done"
                 THEN UNCHANGED <<mainPc, mainErr>>
                 ELSE MainFails
            /\ UNCHANGED <<container, killed>>
    /\ UNCHANGED <<installed, sigCount, cloudVars, handle, emitted, readerVars,
                   queue, finished, flusherVars, putsAtFinish>>

\* LogHandler.stop: self.finished.set().
HandlerSetFinished ==
    /\ hstack # <<>> /\ Head(hstack) = "set_finished"
    /\ finished' = TRUE
    /\ putsAtFinish' = (IF finished THEN putsAtFinish ELSE PutsDone)
    /\ hstack' = <<"join_flusher">> \o Tail(hstack)
    /\ UNCHANGED <<mainPc, mainErr, installed, sigCount, cloudVars, containerVars,
                   readerVars, queue, flusherVars>>

\* LogHandler.stop: self.flush_thread.join(); the handler returns.
HandlerJoinFlusher ==
    /\ hstack # <<>> /\ Head(hstack) = "join_flusher"
    /\ flusherPc = "exited"
    /\ hstack' = Tail(hstack)
    /\ UNCHANGED <<mainPc, mainErr, installed, sigCount, cloudVars, containerVars,
                   readerVars, queue, finished, flusherVars, putsAtFinish>>

----------------------------------------------------------------------------
(* The workload *)

\* The workload writes one more line to stdout/stderr.
Emit ==
    /\ container = "running"
    /\ emitted < MaxLines
    /\ emitted' = emitted + 1
    /\ UNCHANGED <<mainVars, cloudVars, container, handle, killed, readerVars,
                   queue, finished, flusherVars, putsAtFinish>>

\* The workload exits on its own.
Exit ==
    /\ container = "running"
    /\ container' = "exited"
    /\ UNCHANGED <<mainVars, cloudVars, handle, killed, emitted, readerVars,
                   queue, finished, flusherVars, putsAtFinish>>

----------------------------------------------------------------------------
(* The reader thread: collect_logs, lines 45-49, and handle_log, 132-134 *)

\* The next item of container.logs(stream=True): a line, or the end of the
\* stream once the container has stopped and every line has been read.
ReaderNext ==
    /\ readerPc = "next"
    /\ IF nread < emitted
         THEN /\ nread' = nread + 1
              /\ readerPc' = "put"
       ELSE /\ container # "running"
            /\ readerPc' = "done"
            /\ UNCHANGED nread
    /\ UNCHANGED <<mainVars, cloudVars, containerVars, putWaited, queue, finished,
                   flusherVars, putsAtFinish>>

\* handle_log: self.log_events_queue.put(log_event).  A put on a full queue
\* waits on the queue's not_full condition.
ReaderPut ==
    /\ readerPc = "put"
    /\ IF QFull(queue)
         THEN /\ readerPc' = "put_wait"
              /\ UNCHANGED <<queue, putWaited>>
         ELSE /\ queue' = QPut(queue, nread)
              /\ putWaited' = FALSE
              /\ readerPc' = "next"
    /\ UNCHANGED <<mainVars, cloudVars, containerVars, nread, finished,
                   flusherVars, putsAtFinish>>

\* The waiting put goes on once a get has freed a slot.
ReaderPutWake ==
    /\ readerPc = "put_wait"
    /\ ~QFull(queue)
    /\ queue' = QPut(queue, nread)
    /\ putWaited' = TRUE
    /\ readerPc' = "next"
    /\ UNCHANGED <<mainVars, cloudVars, containerVars, nread, finished,
                   flusherVars, putsAtFinish>>

----------------------------------------------------------------------------
(* The flusher thread: flush_logs, lines 118-130 *)

\* while not self.finished.is_set() or ...: the first operand.
FlushTestFlag ==
    /\ flusherPc = "test_flag"
    /\ flusherPc' = (IF LoopOnFlag(finished) THEN "qsize" ELSE "test_empty")
    /\ UNCHANGED <<mainVars, cloudVars, containerVars, readerVars, queue, finished,
                   n, log_events, snapshot, sent, delivered, putsAtFinish>>

\* ... or not self.log_events_queue.empty(): the second operand; the
\* function returns when it is false too.
FlushTestEmpty ==
    /\ flusherPc = "test_empty"
    /\ flusherPc' = (IF LoopOnQueue(queue) THEN "qsize" ELSE "exited")
    /\ UNCHANGED <<mainVars, cloudVars, containerVars, readerVars, queue, finished,
                   n, log_events, snapshot, sent, delivered, putsAtFinish>>

\* Where the loop body goes once the for loop is over: line 127.
AfterDrain(batch) == IF ShouldSend(batch) THEN "send" ELSE "test_flag"

\* log_events = []; for _ in range(self.log_events_queue.qsize()).
FlushQsize ==
    /\ flusherPc = "qsize"
    /\ log_events' = <<>>
    /\ snapshot' = queue
    /\ n' = DrainCount(queue)
    /\ flusherPc' = (IF DrainCount(queue) = 0 THEN AfterDrain(<<>>) ELSE "get")
    /\ UNCHANGED <<mainVars, cloudVars, containerVars, readerVars, queue, finished,
                   sent, delivered, putsAtFinish>>

\* One iteration: get(block=False) and append, or queue.Empty and break.
FlushGet ==
    /\ flusherPc = "get"
    /\ IF queue # <<>>
         THEN /\ log_events' = Append(log_events, Head(queue))
              /\ queue' = Tail(queue)
              /\ n' = n - 1
              /\ flusherPc' = (IF n = 1 THEN AfterDrain(log_events') ELSE "get")
         ELSE /\ n' = 0
              /\ flusherPc' = AfterDrain(log_events)
              /\ UNCHANGED <<queue, log_events>>
    /\ UNCHANGED <<mainVars, cloudVars, containerVars, readerVars, finished,
                   snapshot, sent, delivered, putsAtFinish>>

MutSendPropagates(ok) == ~ok
\* send_logs wraps put_log_events in try / except Exception: no failure of
\* the call leaves send_logs, so none ends the flusher thread.
SendRaises(ok) == FALSE

\* self.cloudwatch_manager.send_logs(group, stream, log_events), lines 91-102:
\* one put_log_events call; an exception of the call is logged and dropped.
FlushSend ==
    /\ flusherPc = "send"
    /\ sent' = Append(sent, log_events)
    /\ \E ok \in BOOLEAN :
          /\ delivered' = (IF ok THEN Append(delivered, log_events) ELSE delivered)
          /\ flusherPc' = (IF SendRaises(ok) THEN "crashed" ELSE "test_flag")
    /\ UNCHANGED <<mainVars, cloudVars, containerVars, readerVars, queue, finished,
                   n, log_events, snapshot, putsAtFinish>>

----------------------------------------------------------------------------
MainStep ==
    \/ MainCreateGroup \/ MainCreateStream \/ MainNewLogHandler \/ MainNewDocker
    \/ MainInstall \/ MainRun \/ MainAssign \/ MainStartReader \/ MainWait
    \/ MainJoinReader \/ MainRemove
    \/ HandlerKill \/ HandlerSetFinished \/ HandlerJoinFlusher

ReaderStep == ReaderNext \/ ReaderPut \/ ReaderPutWake

FlusherStep == FlushTestFlag \/ FlushTestEmpty \/ FlushQsize \/ FlushGet \/ FlushSend

Next ==
    \/ MainCreateGroup \/ MainCreateStream \/ MainNewLogHandler \/ MainNewDocker
    \/ MainInstall \/ MainRun \/ MainAssign \/ MainStartReader \/ MainWait
    \/ MainJoinReader \/ MainRemove
    \/ Signal \/ HandlerKill \/ HandlerSetFinished \/ HandlerJoinFlusher
    \/ Emit \/ Exit
    \/ ReaderNext \/ ReaderPut \/ ReaderPutWake
    \/ FlushTestFlag \/ FlushTestEmpty \/ FlushQsize \/ FlushGet \/ FlushSend

Spec == Init /\ [][Next]_vars

\* The operating system schedules every runnable thread again and again.
FairSpec ==
    /\ Spec
    /\ WF_vars(MainStep)
    /\ WF_vars(ReaderStep)
    /\ WF_vars(FlusherStep)

----------------------------------------------------------------------------
(* Properties *)

\* All messages passed to send_logs so far, in submission order.
Submitted == Flatten(sent)

\* The batch the flusher is building or sending.
InFlight == IF flusherPc \in {"get", "send"} THEN log_events ELSE <<>>

\* The workload stopped on its own.
NaturalExit == container \in {"exited", "removed"} /\ ~killed

\* The reader can never leave its put: the queue is full and its only
\* consumer has returned.
ReaderStuck ==
    /\ readerPc \in {"put", "put_wait"}
    /\ QFull(queue)
    /\ flusherPc = "exited"

\* C1: the messages of the batches submitted to the sink, concatenated in
\* submission order, are a prefix of the lines passed to handle_log so far:
\* no reordering, no duplicate, no gap.
C1_SubmittedInOrder ==
    /\ Len(Submitted) <= nread
    /\ Submitted = Lines(Len(Submitted))

C1_Witness ==
    /\ Len(sent) >= 2
    /\ Len(Submitted) = MaxLines
    /\ \E i \in 1..Len(sent) : Len(sent[i]) >= 2

\* C2: once the workload has exited on its own after writing N lines, then,
\* unless a signal arrives, eventually the submitted batches hold exactly
\* those N lines.
C2_NoLossOnCleanExit ==
    NaturalExit ~> (sigCount > 0 \/ Submitted = Lines(emitted))

C2_Witness ==
    /\ NaturalExit /\ sigCount = 0
    /\ emitted = MaxLines
    /\ Submitted = Lines(emitted)
    /\ Len(sent) >= 2

\* C3: when main has run to its end on the natural-exit path (no signal, no
\* exception), finished has been signalled and the flusher has exited.
C3_NaturalExitStopsFlusher ==
    (mainPc = "done" /\ ~mainErr /\ sigCount = 0)
        => (finished /\ flusherPc = "exited")

\* C4: if from some point on finished is set and the queue stays empty, the
\* flusher eventually terminates.
C4_FlusherTerminates ==
    <>[](finished /\ queue = <<>>) => <>(flusherPc = "exited")

C4_Witness ==
    /\ finished /\ queue = <<>>
    /\ flusherPc = "exited"
    /\ hstack = <<>>
    /\ Len(sent) >= 1

\* C5: when the flusher has exited, every event whose put completed before
\* finished was set is in a submitted batch, and none of them is in the queue.
C5_DrainedBeforeExit ==
    flusherPc = "exited" =>
        /\ \A i \in 1..putsAtFinish : \E k \in 1..Len(Submitted) : Submitted[k] = i
        /\ \A k \in 1..Len(queue) : queue[k] > putsAtFinish

C5_Witness ==
    /\ flusherPc = "exited"
    /\ putsAtFinish = MaxLines
    /\ Len(Submitted) = MaxLines

\* C6: after an interrupt that killed the running workload, the reader is
\* never blocked for ever in a put on a full queue whose flusher has exited.
C6_NoHangOnInterrupt == killed => ~ReaderStuck

C8_BatchBounded ==
    /\ \A i \in 1..Len(sent) : Len(sent[i]) <= LOGS_QUEUE_SIZE
    /\ Len(InFlight) <= LOGS_QUEUE_SIZE

C8_Witness ==
    /\ Len(sent) >= 1
    /\ Len(sent[Len(sent)]) = LOGS_QUEUE_SIZE
    /\ flusherPc = "test_flag"
    /\ Len(queue) = LOGS_QUEUE_SIZE

\* C9: the queue never holds more than its capacity and no event is dropped
\* or overwritten: the submitted batches, the batch in the flusher's hands
\* and the queue together are exactly the lines whose put has completed, in
\* order; a put that found the queue full holds its line until it is enqueued.
C9_Backpressure ==
    /\ Len(queue) <= LOGS_QUEUE_SIZE
    /\ Submitted \o InFlight \o queue = Lines(PutsDone)
    /\ readerPc = "put_wait" => nread > Len(Submitted \o InFlight \o queue)

C9_Witness ==
    /\ putWaited
    /\ readerPc = "next"
    /\ queue # <<>>
    /\ queue[Len(queue)] = nread
    /\ nread > LOGS_QUEUE_SIZE

\* C10: send_logs is never called with an empty list; a workload that wrote
\* nothing leaves no submitted batch and, without a signal, no error.
C10_NoEmptyBatch ==
    /\ \A i \in 1..Len(sent) : sent[i] # <<>>
    /\ (NaturalExit /\ emitted = 0) => sent = <<>>
    /\ (NaturalExit /\ emitted = 0 /\ sigCount = 0) => ~mainErr

C10_Witness ==
    /\ NaturalExit /\ emitted = 0 /\ sigCount = 0
    /\ mainPc = "done"
    /\ sent = <<>>
    /\ flusherPc = "test_flag"

\* C11: a failure of the sink is absorbed in send_logs: the flusher thread
\* never dies of it, every event is part of at most one submitted batch, no
\* submitted event is back in the queue, and the accepted batches are the
\* submitted ones with the failed ones left out.
C11_BestEffort ==
    /\ flusherPc # "crashed"
    /\ \A i, j \in 1..Len(Submitted) : i # j => Submitted[i] # Submitted[j]
    /\ \A k \in 1..Len(queue) : \A i \in 1..Len(Submitted) : queue[k] # Submitted[i]
    /\ \A k \in 1..Len(InFlight) : \A i \in 1..Len(Submitted) : InFlight[k] # Submitted[i]
    /\ IsSubseq(delivered, sent)

\* A batch failed and the next one was still submitted and accepted.
C11_Witness ==
    /\ Len(sent) >= 3
    /\ delivered = <<sent[1], sent[3]>>

\* C12: finished.set() and container.kill() are each executed at most once in
\* a run: no step sets finished when it is already set, and no step calls
\* kill on the container after a kill has stopped it.
C12_SingleShutdown ==
    [][/\ ~(finished /\ HandlerSetFinished)
       /\ ~(killed /\ handle /\ HandlerKill)]_vars

\* An exception of the start-up (destination setup, Docker client, container
\* launch) reached the except clause of main: no container was created.
StartupError == mainErr /\ container = "none"

\* C13: after a start-up error has been caught, the whole process ends on its
\* own: unless a signal arrives, eventually main has returned and neither the
\* flusher nor the reader is alive.
C13_ErrorTerminates ==
    StartupError ~> (sigCount > 0 \/ ProcessExited)

\* C14: whatever state the container is in, docker_manager.kill() returns
\* into shutdown_handler, which goes on to log_handler.stop(); no exception
\* of the kill leaves the handler and reaches main.
C14_KillFailureSuppressed ==
    [][HandlerKill =>
         /\ hstack' # <<>>
         /\ Head(hstack') = "set_finished"
         /\ UNCHANGED <<mainPc, mainErr>>]_vars

\* C15: the destination set-up succeeds whether or not the group and the
\* stream exist: main fails before the flusher is started only when a create
\* call failed for another reason than "already exists", and once the
\* flusher is started both the group and the stream exist.
C15_IdempotentSetup ==
    /\ (mainErr /\ flusherPc = "idle") => apiFault
    /\ flusherPc # "idle" => (groupExists /\ streamExists /\ ~apiFault)
    /\ absorbed <= 2

\* Group and stream both existed before the run; the flusher and the
\* container were started all the same.
C15_Witness ==
    /\ absorbed = 2
    /\ groupExists /\ streamExists
    /\ flusherPc # "idle"
    /\ container = "running"
    /\ ~mainErr

\* The reader thread has been started and has not returned.
ReaderAlive == readerPc \in {"next", "put", "put_wait"}

\* C16: finished is set only once the reader has seen the end of the stream:
\* in no state is finished set while the reader thread is still alive.
C16_FinishedAfterReader == finished => ~ReaderAlive

\* C17: the flusher thread returns only when finished is set and it has seen
\* the queue empty: the step by which it exits is taken with finished set and
\* the queue empty, and in every state in which it has exited finished is set.
C17_ExitOnlyFinishedAndEmpty ==
    [][flusherPc' = "exited" =>
         /\ finished'
         /\ flusherPc # "exited" => (finished /\ queue = <<>>)]_vars

C17_Witness ==
    /\ flusherPc = "exited"
    /\ finished
    /\ readerPc = "done"
    /\ Len(sent) >= 2

\* C18: a batch is exactly what the queue held when qsize() was called, in
\* queue order.  During the drain the events still to be taken are at the
\* head of the queue (so get never finds it empty) and, after the events
\* already taken, make up the snapshot; what is enqueued meanwhile stays
\* behind them.  The batch handed to send_logs is the snapshot.
C18_BatchIsSnapshot ==
    /\ flusherPc = "get" =>
          /\ n >= 1
          /\ Len(queue) >= n
          /\ log_events \o SubSeq(queue, 1, n) = snapshot
    /\ flusherPc = "send" => log_events = snapshot
    /\ (flusherPc \in {"test_flag", "test_empty", "exited"} /\ snapshot # <<>>) =>
          (sent # <<>> /\ sent[Len(sent)] = snapshot)

\* A full queue was drained while the reader enqueued behind the snapshot.
C18_Witness ==
    /\ flusherPc = "send"
    /\ Len(snapshot) = LOGS_QUEUE_SIZE
    /\ log_events = snapshot
    /\ queue # <<>>

\* C19: once shutdown_handler has been entered, no later step starts the
\* workload.
C19_NoWorkloadAfterShutdown ==
    [][sigCount > 0 => ~(container = "none" /\ container' = "running")]_vars

\* C20: DockerManager.remove is invoked, and the container is removed, only
\* when the container has stopped and the reader thread has returned.
C20_RemoveAfterStop ==
    (mainPc = "remove" \/ container = "removed") =>
        (container # "running" /\ readerPc = "done")

C20_Witness ==
    /\ container = "removed"
    /\ ~killed
    /\ readerPc = "done"
    /\ nread = MaxLines

====
